---- MODULE Spec2Model ----
\* Model of src/errors/mod.rs of mininip: the six error kinds, their
\* constructors and Display renderings, and the byte-offset resolver nth_char.
\*
\* A Rust `String` is modelled as the sequence of its UTF-8 bytes (0-based byte
\* offsets of the source become 1-based positions only inside SubSeq and
\* indexing).  A `char` is modelled as its code point.
EXTENDS Integers, Sequences, FiniteSets, TLC

\* ------------------------------------------------------------------ bounds
\* longest line, in characters
MaxChars == 3
\* longest escape / identifier argument, in characters
MaxArgChars == 2
\* how far past the byte length of the line an index is tried
Beyond == 1

\* ------------------------------------------------------------ UTF-8 texts
\* 'a' (1 byte), U+00E9 (2 bytes), U+20AC (3 bytes), U+1F600 (4 bytes)
Alphabet == {97, 233, 8364, 128512}

\* char::len_utf8
len_utf8(c) ==
    IF c < 128 THEN 1
    ELSE IF c < 2048 THEN 2
    ELSE IF c < 65536 THEN 3
    ELSE 4

\* the UTF-8 encoding of one char, as `{}` writes it and as a String holds it
encode_utf8(c) ==
    IF c < 128 THEN <<c>>
    ELSE IF c < 2048 THEN <<192 + (c \div 64), 128 + (c % 64)>>
    ELSE IF c < 65536 THEN
        <<224 + (c \div 4096), 128 + ((c \div 64) % 64), 128 + (c % 64)>>
    ELSE
        <<240 + (c \div 262144), 128 + ((c \div 4096) % 64),
          128 + ((c \div 64) % 64), 128 + (c % 64)>>

\* a String built from a sequence of chars
RECURSIVE String_from(_)
String_from(cs) ==
    IF cs = <<>> THEN <<>>
    ELSE encode_utf8(Head(cs)) \o String_from(Tail(cs))

\* one item of str::char_indices: the char whose encoding starts at byte
\* offset n (0-based) and the width of that encoding, decoded from the bytes
char_at(string, n) ==
    LET b0 == string[n + 1]
        cont(k) == string[n + 1 + k] % 64
    IN  IF b0 < 128 THEN [ch |-> b0, width |-> 1]
        ELSE IF b0 < 224 THEN
            [ch |-> (b0 % 32) * 64 + cont(1), width |-> 2]
        ELSE IF b0 < 240 THEN
            [ch |-> (b0 % 16) * 4096 + cont(1) * 64 + cont(2), width |-> 3]
        ELSE
            [ch |-> (b0 % 8) * 262144 + cont(1) * 4096 + cont(2) * 64 + cont(3),
             width |-> 4]

\* str::is_char_boundary: offset 0, the byte length, or a byte that is not a
\* continuation byte (10xxxxxx)
is_char_boundary(string, i) ==
    \/ i = 0
    \/ i = Len(string)
    \/ /\ i < Len(string)
       /\ (string[i + 1] < 128 \/ string[i + 1] >= 192)

\* &string[from..to]: panics unless from <= to <= len and both offsets are
\* char boundaries
str_slice(string, from, to) ==
    IF /\ from <= to
       /\ to <= Len(string)
       /\ is_char_boundary(string, from)
       /\ is_char_boundary(string, to)
    THEN [ok |-> TRUE, s |-> SubSeq(string, from + 1, to)]
    ELSE [ok |-> FALSE, s |-> <<>>]

\* str::find(..).is_some(): the pattern occurs at some byte offset
str_contains(string, pat) ==
    \E k \in 0..(Len(string) - Len(pat)) :
        SubSeq(string, k + 1, k + Len(pat)) = pat

\* --------------------------------------------------------- message texts
\* "Expected identifier "
Lit_ExpectedIdentifier ==
    <<69, 120, 112, 101, 99, 116, 101, 100, 32, 105, 100, 101, 110, 116, 105,
      102, 105, 101, 114, 32>>
\* "{here}"
Lit_here ==
    <<123, 104, 101, 114, 101, 125>>
\* "Expected "
Lit_Expected ==
    <<69, 120, 112, 101, 99, 116, 101, 100, 32>>
\* " "
Lit_space ==
    <<32>>
\* "Expected escape sequence "
Lit_ExpectedEscape ==
    <<69, 120, 112, 101, 99, 116, 101, 100, 32, 101, 115, 99, 97, 112, 101, 32,
      115, 101, 113, 117, 101, 110, 99, 101, 32>>
\* " instead of "
Lit_instead_of ==
    <<32, 105, 110, 115, 116, 101, 97, 100, 32, 111, 102, 32>>
\* " in "
Lit_in ==
    <<32, 105, 110, 32>>
\* "Unexpected token "
Lit_UnexpectedToken ==
    <<85, 110, 101, 120, 112, 101, 99, 116, 101, 100, 32, 116, 111, 107, 101,
      110, 32>>
\* "Invalid escape sequence "
Lit_InvalidEscape ==
    <<73, 110, 118, 97, 108, 105, 100, 32, 101, 115, 99, 97, 112, 101, 32, 115,
      101, 113, 117, 101, 110, 99, 101, 32>>
\* "Invalid identifier "
Lit_InvalidIdentifier ==
    <<73, 110, 118, 97, 108, 105, 100, 32, 105, 100, 101, 110, 116, 105, 102,
      105, 101, 114, 32>>

\* the outcome of a rendering: the text written, or a panic
Rendered(text) == [st |-> "ok", text |-> text]
RenderPanic == [st |-> "panic", text |-> <<>>]
NotRendered == [st |-> "none", text |-> <<>>]

\* ------------------------------------------------------------- nth_char
\* The state of one call of nth_char: pc is the position in the body, it the
\* byte offset of the next item of char_indices, visited the offsets n the
\* loop body has run for, why the check that panicked.
ScanIdle ==
    [pc |-> "idle", it |-> 0, last_n |-> 0, token |-> 0, visited |-> <<>>,
     why |-> "none"]

\* line 263 and the initialisations of lines 265-266
nth_char_entry(string, index) ==
    IF Len(string) > index
    THEN [ScanIdle EXCEPT !.pc = "loop"]
    ELSE [ScanIdle EXCEPT !.pc = "panic", !.why = "assert_len"]

\* a bug: reaching the target does not leave the loop
nth_char_loop_nobreak(string, index, s) ==
    IF s.it >= Len(string)
    THEN [s EXCEPT !.pc = "assert_eq"]
    ELSE LET n == s.it
             c == char_at(string, n)
         IN  IF n = index
             THEN [s EXCEPT !.last_n = n, !.token = c.ch,
                            !.it = n + c.width,
                            !.visited = Append(@, n)]
             ELSE IF n > index
             THEN [s EXCEPT !.last_n = n, !.pc = "panic", !.why = "loop",
                            !.visited = Append(@, n)]
             ELSE [s EXCEPT !.last_n = n, !.it = n + c.width,
                            !.visited = Append(@, n)]

\* a bug: passing the target does not panic
nth_char_loop_nopanic(string, index, s) ==
    IF s.it >= Len(string)
    THEN [s EXCEPT !.pc = "assert_eq"]
    ELSE LET n == s.it
             c == char_at(string, n)
         IN  IF n = index
             THEN [s EXCEPT !.last_n = n, !.token = c.ch, !.pc = "assert_eq",
                            !.visited = Append(@, n)]
             ELSE [s EXCEPT !.last_n = n, !.it = n + c.width,
                            !.visited = Append(@, n)]

\* one pass of the for loop of lines 268-277: the iterator is exhausted and
\* the loop is left, or the body runs for the next (n, i)
nth_char_loop(string, index, s) ==
    IF s.it >= Len(string)
    THEN [s EXCEPT !.pc = "assert_eq"]
    ELSE LET n == s.it
             c == char_at(string, n)
         IN  IF n = index
             THEN [s EXCEPT !.last_n = n, !.token = c.ch, !.pc = "assert_eq",
                            !.visited = Append(@, n)]
             ELSE IF n > index
             THEN [s EXCEPT !.last_n = n, !.pc = "panic", !.why = "loop",
                            !.visited = Append(@, n)]
             ELSE [s EXCEPT !.last_n = n, !.it = n + c.width,
                            !.visited = Append(@, n)]

\* a bug: the final assertion is left out
nth_char_final_noassert(index, s) ==
    [s EXCEPT !.pc = "ret"]

\* lines 279-281: assert_eq!(last_n, index) and the return of token
nth_char_final(index, s) ==
    IF s.last_n = index
    THEN [s EXCEPT !.pc = "ret"]
    ELSE [s EXCEPT !.pc = "panic", !.why = "assert_eq"]

\* the body of nth_char from a position to its end
RECURSIVE nth_char_run(_, _, _)
nth_char_run(string, index, s) ==
    IF s.pc = "loop" THEN nth_char_run(string, index, nth_char_loop(string, index, s))
    ELSE IF s.pc = "assert_eq" THEN nth_char_run(string, index, nth_char_final(index, s))
    ELSE s

\* a whole call: the final state has pc = "ret" and the token, or pc = "panic"
nth_char(string, index) ==
    nth_char_run(string, index, nth_char_entry(string, index))

\* --------------------------------------------------------- error kinds
\* a constructor that panicked built no value
Panicked == [kind |-> "panic"]
NoError == [kind |-> "none"]

\* a bug: the bound is off by one (>= for >)
ExpectedIdentifier_new_offbyone(line, index) ==
    IF Len(line) >= index
    THEN [kind |-> "ExpectedIdentifier", line |-> line, index |-> index]
    ELSE Panicked

ExpectedIdentifier_new(line, index) ==
    IF Len(line) > index
    THEN [kind |-> "ExpectedIdentifier", line |-> line, index |-> index]
    ELSE Panicked

ExpectedIdentifier_fmt(self) ==
    LET before == str_slice(self.line, 0, self.index)
        after == str_slice(self.line, self.index, Len(self.line))
    IN  IF before.ok /\ after.ok
        THEN Rendered(Lit_ExpectedIdentifier \o before.s \o Lit_here \o after.s)
        ELSE RenderPanic

ExpectedToken_new(line, index, tokens) ==
    IF Len(line) > index
    THEN [kind |-> "ExpectedToken", line |-> line, index |-> index,
          tokens |-> tokens]
    ELSE Panicked

ExpectedToken_fmt(self) ==
    LET before == str_slice(self.line, 0, self.index)
        after == str_slice(self.line, self.index, Len(self.line))
    IN  IF before.ok /\ after.ok
        THEN Rendered(Lit_Expected \o self.tokens \o Lit_space \o before.s
                      \o Lit_here \o after.s)
        ELSE RenderPanic

ExpectedEscape_new(line, index, replace) ==
    LET r == nth_char(line, index)
    IN  IF r.pc = "ret"
        THEN [kind |-> "ExpectedEscape", token |-> r.token, line |-> line,
              replace |-> replace, index |-> index]
        ELSE Panicked

\* a bug: the offending character is taken to be one byte long
ExpectedEscape_fmt_onebyte(self) ==
    LET before == str_slice(self.line, 0, self.index)
        after == str_slice(self.line, self.index + 1, Len(self.line))
    IN  IF before.ok /\ after.ok
        THEN Rendered(Lit_ExpectedEscape \o self.replace \o Lit_instead_of
                      \o encode_utf8(self.token) \o Lit_in \o before.s
                      \o Lit_here \o after.s)
        ELSE RenderPanic

ExpectedEscape_fmt(self) ==
    LET before == str_slice(self.line, 0, self.index)
        after == str_slice(self.line, self.index + len_utf8(self.token),
                           Len(self.line))
    IN  IF before.ok /\ after.ok
        THEN Rendered(Lit_ExpectedEscape \o self.replace \o Lit_instead_of
                      \o encode_utf8(self.token) \o Lit_in \o before.s
                      \o Lit_here \o after.s)
        ELSE RenderPanic

UnexpectedToken_new(line, index) ==
    LET r == nth_char(line, index)
    IN  IF r.pc = "ret"
        THEN [kind |-> "UnexpectedToken", index |-> index, token |-> r.token,
              line |-> line]
        ELSE Panicked

\* a bug: the rest of the line follows the marker, as in the other kinds
UnexpectedToken_fmt_remainder(self) ==
    LET before == str_slice(self.line, 0, self.index)
        after == str_slice(self.line, self.index, Len(self.line))
    IN  IF before.ok /\ after.ok
        THEN Rendered(Lit_UnexpectedToken \o encode_utf8(self.token)
                      \o Lit_space \o before.s \o Lit_here \o after.s)
        ELSE RenderPanic

UnexpectedToken_fmt(self) ==
    LET before == str_slice(self.line, 0, self.index)
    IN  IF before.ok
        THEN Rendered(Lit_UnexpectedToken \o encode_utf8(self.token)
                      \o Lit_space \o before.s \o Lit_here)
        ELSE RenderPanic

\* a bug: the assertion is left out
InvalidEscape_new_nocheck(line, escape) ==
    [kind |-> "InvalidEscape", line |-> line, escape |-> escape]

InvalidEscape_new(line, escape) ==
    IF str_contains(line, escape)
    THEN [kind |-> "InvalidEscape", line |-> line, escape |-> escape]
    ELSE Panicked

InvalidEscape_fmt(self) ==
    Rendered(Lit_InvalidEscape \o self.escape \o Lit_in \o self.line)

\* the answers crate::datas::Identifier::is_valid can give
is_valid_answers == BOOLEAN

\* a bug: the validity assertion is left out
InvalidIdentifier_new_novalidity(line, identifier, is_valid) ==
    IF ~str_contains(line, identifier) THEN Panicked
    ELSE [kind |-> "InvalidIdentifier", line |-> line, ident |-> identifier]

\* is_valid is the answer of Identifier::is_valid(&identifier)
InvalidIdentifier_new(line, identifier, is_valid) ==
    IF ~str_contains(line, identifier) THEN Panicked
    ELSE IF is_valid THEN Panicked
    ELSE [kind |-> "InvalidIdentifier", line |-> line, ident |-> identifier]

InvalidIdentifier_fmt(self) ==
    Rendered(Lit_InvalidIdentifier \o self.ident \o Lit_in \o self.line)

\* Display for Error: the rendering of the wrapped kind
Error_fmt(self) ==
    CASE self.kind = "ExpectedIdentifier" -> ExpectedIdentifier_fmt(self)
      [] self.kind = "ExpectedToken" -> ExpectedToken_fmt(self)
      [] self.kind = "ExpectedEscape" -> ExpectedEscape_fmt(self)
      [] self.kind = "UnexpectedToken" -> UnexpectedToken_fmt(self)
      [] self.kind = "InvalidEscape" -> InvalidEscape_fmt(self)
      [] self.kind = "InvalidIdentifier" -> InvalidIdentifier_fmt(self)

\* ------------------------------------------------------------- inputs
RECURSIVE TextsOver(_, _)
TextsOver(alphabet, n) ==
    IF n = 0 THEN {<<>>}
    ELSE LET shorter == TextsOver(alphabet, n - 1)
         IN  shorter \cup {Append(t, c) : t \in shorter, c \in alphabet}

\* "let x = 5"
ScenarioLet ==
    <<108, 101, 116, 32, 120, 32, 61, 32, 53>>
\* "foo#bar"
ScenarioFoo ==
    <<102, 111, 111, 35, 98, 97, 114>>
\* "'='"
TokensEq ==
    <<39, 61, 39>>
\* "\#"
ReplaceHash ==
    <<92, 35>>

\* the lines tried, as sequences of chars
Lines == TextsOver(Alphabet, MaxChars) \cup {ScenarioLet, ScenarioFoo}
\* the `tokens` and `replace` texts tried
Descriptions == {TokensEq, ReplaceHash, encode_utf8(233)}
\* the `escape` and `identifier` texts tried
Arguments == {String_from(t) : t \in TextsOver(Alphabet, MaxArgChars)}

\* --------------------------------------------------------------- state
VARIABLES
    chars,   \* the line as a sequence of chars
    line,    \* the line as a String
    index,   \* the byte offset passed
    op,      \* the operation called on them
    arg,     \* the second text passed (tokens, replace, escape, identifier)
    valid,   \* what Identifier::is_valid answered
    err,     \* the Error built, Panicked, or NoError before the call
    out,     \* the rendering of err
    scan     \* the call of nth_char in progress

vars == <<chars, line, index, op, arg, valid, err, out, scan>>

Init ==
    /\ chars \in Lines
    /\ line = String_from(chars)
    /\ index \in 0..(Len(line) + Beyond)
    /\ op = "none"
    /\ arg = <<>>
    /\ valid = FALSE
    /\ err = NoError
    /\ out = NotRendered
    /\ scan = ScanIdle

New_ExpectedIdentifier ==
    /\ op = "none"
    /\ op' = "ExpectedIdentifier"
    /\ err' = ExpectedIdentifier_new(line, index)
    /\ UNCHANGED <<chars, line, index, arg, valid, out, scan>>

New_ExpectedToken ==
    /\ op = "none"
    /\ \E tokens \in Descriptions :
        /\ arg' = tokens
        /\ err' = ExpectedToken_new(line, index, tokens)
    /\ op' = "ExpectedToken"
    /\ UNCHANGED <<chars, line, index, valid, out, scan>>

New_ExpectedEscape ==
    /\ op = "none"
    /\ \E replace \in Descriptions :
        /\ arg' = replace
        /\ err' = ExpectedEscape_new(line, index, replace)
    /\ op' = "ExpectedEscape"
    /\ UNCHANGED <<chars, line, index, valid, out, scan>>

New_UnexpectedToken ==
    /\ op = "none"
    /\ op' = "UnexpectedToken"
    /\ err' = UnexpectedToken_new(line, index)
    /\ UNCHANGED <<chars, line, index, arg, valid, out, scan>>

New_InvalidEscape ==
    /\ op = "none"
    /\ \E escape \in Arguments :
        /\ arg' = escape
        /\ err' = InvalidEscape_new(line, escape)
    /\ op' = "InvalidEscape"
    /\ UNCHANGED <<chars, line, index, valid, out, scan>>

New_InvalidIdentifier ==
    /\ op = "none"
    /\ \E identifier \in Arguments, is_valid \in is_valid_answers :
        /\ arg' = identifier
        /\ valid' = is_valid
        /\ err' = InvalidIdentifier_new(line, identifier, is_valid)
    /\ op' = "InvalidIdentifier"
    /\ UNCHANGED <<chars, line, index, out, scan>>

\* the Error built is rendered (Display::fmt)
Render ==
    /\ err.kind \notin {"none", "panic"}
    /\ out = NotRendered
    /\ out' = Error_fmt(err)
    /\ UNCHANGED <<chars, line, index, op, arg, valid, err, scan>>

\* nth_char(line, index) is called on its own and runs step by step
Call_nth_char ==
    /\ op = "none"
    /\ op' = "nth_char"
    /\ scan' = nth_char_entry(line, index)
    /\ UNCHANGED <<chars, line, index, arg, valid, err, out>>

Loop_nth_char ==
    /\ scan.pc = "loop"
    /\ scan' = nth_char_loop(line, index, scan)
    /\ UNCHANGED <<chars, line, index, op, arg, valid, err, out>>

Final_nth_char ==
    /\ scan.pc = "assert_eq"
    /\ scan' = nth_char_final(index, scan)
    /\ UNCHANGED <<chars, line, index, op, arg, valid, err, out>>

Next ==
    \/ New_ExpectedIdentifier
    \/ New_ExpectedToken
    \/ New_ExpectedEscape
    \/ New_UnexpectedToken
    \/ New_InvalidEscape
    \/ New_InvalidIdentifier
    \/ Render
    \/ Call_nth_char
    \/ Loop_nth_char
    \/ Final_nth_char

Spec == Init /\ [][Next]_vars

\* nth_char has no suspension point: a call that has started runs to its end
FairSpec ==
    Spec /\ WF_vars(Loop_nth_char) /\ WF_vars(Final_nth_char)

TypeOK ==
    /\ chars \in Lines
    /\ op \in {"none", "nth_char", "ExpectedIdentifier", "ExpectedToken",
               "ExpectedEscape", "UnexpectedToken", "InvalidEscape",
               "InvalidIdentifier"}
    /\ out.st \in {"none", "ok", "panic"}
    /\ scan.pc \in {"idle", "loop", "assert_eq", "ret", "panic"}

\* ------------------------------------------- the line seen as characters
\* These definitions read `chars`, never the bytes: they say where the
\* characters of the line are without decoding it.
RECURSIVE ByteLen(_)
ByteLen(cs) ==
    IF cs = <<>> THEN 0
    ELSE (IF Head(cs) < 128 THEN 1
          ELSE IF Head(cs) < 2048 THEN 2
          ELSE IF Head(cs) < 65536 THEN 3 ELSE 4) + ByteLen(Tail(cs))

\* the byte offset at which the k-th character starts
StartOf(cs, k) == ByteLen(SubSeq(cs, 1, k - 1))

StartOffsets(cs) == {StartOf(cs, k) : k \in 1..Len(cs)}

\* the number of the character that starts at offset i
CharNo(cs, i) == CHOOSE k \in 1..Len(cs) : StartOf(cs, k) = i

\* offset i is strictly inside the encoding of the last character
InsideLast(cs, i) ==
    /\ cs # <<>>
    /\ i > StartOf(cs, Len(cs))
    /\ i < ByteLen(cs)

\* the text occurs in the line
OccursIn(pat, string) ==
    \E i \in 0..Len(string) : \E j \in i..Len(string) :
        SubSeq(string, i + 1, j) = pat

IndexKinds ==
    {"ExpectedIdentifier", "ExpectedToken", "ExpectedEscape", "UnexpectedToken"}

Ended == scan.pc \in {"ret", "panic"}

\* ----------------------------------------------------------------- C1
\* C1: nth_char on an offset below the byte length returns the character
\* that starts at that offset, and panics when the offset is strictly inside
\* the encoding of a character, the last one included.
C1_nth_char_resolves ==
    (op = "nth_char" /\ Ended /\ index < Len(line)) =>
        IF index \in StartOffsets(chars)
        THEN scan.pc = "ret" /\ scan.token = chars[CharNo(chars, index)]
        ELSE scan.pc = "panic"

C1_witness ==
    /\ op = "nth_char"
    /\ scan.pc = "ret"
    /\ index > 0
    /\ scan.token > 127

\* ----------------------------------------------------------------- C2
\* C2: an index-based error that was constructed holds an index below the
\* byte length of its line that starts a character, and rendering it does
\* not panic.
C2_index_never_invalid ==
    (err.kind \in IndexKinds) =>
        /\ err.index < Len(err.line)
        /\ err.index \in StartOffsets(chars)
        /\ out.st # "panic"

\* ----------------------------------------------------------------- C3
\* C3: with index >= the byte length of the line, each of the four
\* index-based constructors panics and builds no error.
C3_index_too_big_panics ==
    (op \in IndexKinds /\ index >= Len(line)) =>
        /\ err = Panicked
        /\ out = NotRendered

C3_witness ==
    /\ op = "ExpectedIdentifier"
    /\ line # <<>>
    /\ index = Len(line)
    /\ err = Panicked

\* ----------------------------------------------------------------- C4
\* C4: with index < the byte length, ExpectedIdentifier::new and
\* ExpectedToken::new succeed and render the line split at index, the marker
\* in between, after "Expected identifier " or "Expected <tokens> ".
C4_split_at_index ==
    /\ (op = "ExpectedIdentifier" /\ index < Len(line)) =>
        /\ err.kind = "ExpectedIdentifier"
        /\ out.st # "none" =>
            out = Rendered(Lit_ExpectedIdentifier \o SubSeq(line, 1, index)
                           \o Lit_here \o SubSeq(line, index + 1, Len(line)))
    /\ (op = "ExpectedToken" /\ index < Len(line)) =>
        /\ err.kind = "ExpectedToken"
        /\ out.st # "none" =>
            out = Rendered(Lit_Expected \o arg \o Lit_space
                           \o SubSeq(line, 1, index)
                           \o Lit_here \o SubSeq(line, index + 1, Len(line)))

\* ----------------------------------------------------------------- C5
\* C5: InvalidIdentifier::new succeeds exactly when the identifier occurs in
\* the line and Identifier::is_valid rejects it; otherwise it panics.
C5_invalid_identifier_iff ==
    (op = "InvalidIdentifier") =>
        IF OccursIn(arg, line) /\ ~valid
        THEN err = [kind |-> "InvalidIdentifier", line |-> line, ident |-> arg]
        ELSE err = Panicked /\ out = NotRendered

C5_witness ==
    /\ op = "InvalidIdentifier"
    /\ arg # <<>>
    /\ OccursIn(arg, line)
    /\ valid
    /\ err = Panicked

\* ----------------------------------------------------------------- C6
\* C6: InvalidEscape::new succeeds exactly when the escape occurs in the line
\* (the empty escape always does), and the error renders as
\* "Invalid escape sequence <escape> in <line>".
C6_invalid_escape_iff ==
    (op = "InvalidEscape") =>
        /\ arg = <<>> => err.kind = "InvalidEscape"
        /\ IF OccursIn(arg, line)
           THEN /\ err = [kind |-> "InvalidEscape", line |-> line,
                          escape |-> arg]
                /\ out.st # "none" =>
                    out = Rendered(Lit_InvalidEscape \o arg \o Lit_in \o line)
           ELSE err = Panicked /\ out = NotRendered

C6_witness ==
    /\ op = "InvalidEscape"
    /\ arg # <<>>
    /\ Len(line) > Len(arg)
    /\ out.st = "ok"

\* ----------------------------------------------------------------- C7
\* C7: an ExpectedEscape that was constructed holds the character that starts
\* at index, and renders the line without exactly the bytes of that
\* character, the marker in their place; index plus the length of the
\* character does not pass the end of the line.
C7_expected_escape ==
    (err.kind = "ExpectedEscape") =>
        /\ index \in StartOffsets(chars)
        /\ LET k == CharNo(chars, index)
               charlen == ByteLen(<<chars[k]>>)
           IN  /\ err.token = chars[k]
               /\ index + charlen <= Len(line)
               /\ out.st # "none" =>
                   out = Rendered(Lit_ExpectedEscape \o arg \o Lit_instead_of
                            \o String_from(<<chars[k]>>) \o Lit_in
                            \o SubSeq(line, 1, index) \o Lit_here
                            \o SubSeq(line, index + charlen + 1, Len(line)))

C7_witness ==
    /\ err.kind = "ExpectedEscape"
    /\ err.token > 127
    /\ index > 0
    /\ ~InsideLast(chars, index + 1)
    /\ out.st = "ok"

\* "Unexpected token # foo{here}"
ScenarioFooOut ==
    <<85, 110, 101, 120, 112, 101, 99, 116, 101, 100, 32, 116, 111, 107, 101,
      110, 32, 35, 32, 102, 111, 111, 123, 104, 101, 114, 101, 125>>

\* ----------------------------------------------------------------- C8
\* C8: at an offset that starts a character, UnexpectedToken::new succeeds
\* with that character as token and renders "Unexpected token <token> ", the
\* line before index and the marker, with nothing after the marker.
C8_unexpected_token ==
    (op = "UnexpectedToken" /\ index \in StartOffsets(chars)) =>
        LET k == CharNo(chars, index)
        IN  /\ err.kind = "UnexpectedToken"
            /\ err.token = chars[k]
            /\ out.st # "none" =>
                /\ out = Rendered(Lit_UnexpectedToken
                                  \o String_from(<<chars[k]>>) \o Lit_space
                                  \o String_from(SubSeq(chars, 1, k - 1))
                                  \o Lit_here)
                /\ (chars = ScenarioFoo /\ index = 3) =>
                    out.text = ScenarioFooOut

C8_witness ==
    /\ op = "UnexpectedToken"
    /\ index \in StartOffsets(chars)
    /\ index > 0
    /\ index < StartOf(chars, Len(chars))
    /\ out.st = "ok"

\* ----------------------------------------------------------------- C9
\* nth_char with the final assertion removed: the bounds check and the loop
\* as they are, then the return of token
RECURSIVE simplified_run(_, _, _)
simplified_run(string, index_, s) ==
    IF s.pc = "loop"
    THEN simplified_run(string, index_, nth_char_loop(string, index_, s))
    ELSE IF s.pc = "assert_eq" THEN [s EXCEPT !.pc = "ret"]
    ELSE s

simplified(string, index_) ==
    simplified_run(string, index_, nth_char_entry(string, index_))

\* what the caller sees of a call: the character returned, or the panic
Outcome(s) == IF s.pc = "ret" THEN <<"ret", s.token>> ELSE <<"panic", 0>>

\* C9 as stated: below the byte length the final assertion never fails, and
\* nth_char without it has the same outcome on every input.
C9_final_assert_redundant ==
    (op = "nth_char" /\ Ended /\ index < Len(line)) =>
        /\ scan.why # "assert_eq"
        /\ Outcome(scan) = Outcome(simplified(line, index))

\* C9 amended: below the byte length the final assertion fails exactly when
\* the offset is strictly inside the last character; there nth_char panics
\* and nth_char without the assertion returns '\0'; on every other input the
\* two have the same outcome.
C9_final_assert_needed_in_last_char ==
    (op = "nth_char" /\ Ended /\ index < Len(line)) =>
        /\ scan.why = "assert_eq" <=> InsideLast(chars, index)
        /\ InsideLast(chars, index) =>
            /\ scan.pc = "panic"
            /\ Outcome(simplified(line, index)) = <<"ret", 0>>
        /\ ~InsideLast(chars, index) =>
            Outcome(scan) = Outcome(simplified(line, index))

C9_witness ==
    /\ op = "nth_char"
    /\ InsideLast(chars, index)
    /\ Len(chars) > 1
    /\ scan.why = "assert_eq"

\* ---------------------------------------------------------------- C10
\* the loop body has run for the first characters of the line, in order
VisitedInOrder ==
    /\ Len(scan.visited) <= Len(chars)
    /\ \A j \in 1..Len(scan.visited) : scan.visited[j] = StartOf(chars, j)
    /\ \A j \in 1..(Len(scan.visited) - 1) :
        scan.visited[j] < scan.visited[j + 1]
    /\ scan.visited # <<>> => scan.last_n = scan.visited[Len(scan.visited)]

\* every offset visited before the last one visited is below the target; at
\* the target the loop is left with the character, past it nth_char panics
StopsAtFirstReached ==
    /\ \A j \in 1..(Len(scan.visited) - 1) : scan.visited[j] < index
    /\ (scan.visited # <<>> /\ scan.last_n = index) =>
        /\ scan.pc \in {"assert_eq", "ret"}
        /\ scan.token = chars[Len(scan.visited)]
    /\ (scan.visited # <<>> /\ scan.last_n > index) =>
        scan.pc = "panic" /\ scan.why = "loop"

\* C10: the scan visits the start offsets of the line in increasing order,
\* stops at the first one >= the target (returning the character on
\* equality, panicking past it), visits at most as many characters as the
\* line has, and every call ends.
C10_scan_order_and_termination ==
    /\ [](VisitedInOrder /\ StopsAtFirstReached)
    /\ [][Ended => scan' = scan]_vars
    /\ (op = "nth_char") ~> Ended

C10_witness ==
    /\ op = "nth_char"
    /\ scan.pc = "ret"
    /\ Len(scan.visited) = 2
    /\ Len(chars) = 3

====
